---- MODULE Spec2Model ----
(***************************************************************************)
(* Cross-exchange arbitrage bot (src/cross_exchange_arbitrage.py):         *)
(* the scorer calculate_arbitrage_profit, the saga execute_arbitrage and   *)
(* the scan loop run_monitoring of CrossExchangeArbitrageBot.             *)
(*                                                                         *)
(* Numbers.  Python computes with floats (IEEE 754 binary64), and so does  *)
(* the model: every operation of the scorers is rounded as the hardware    *)
(* rounds it.  Inputs are decimal literals: prices and the investment are  *)
(* integers (quote currency units), fee rates and withdrawal fees are      *)
(* integers in units of 1/FeeScale, thresholds are integers in hundredths  *)
(* of a percent.  Mantissas exceed 32 bits, so they are held as            *)
(* multi-digit integers (base BigBase, little endian).                     *)
(***************************************************************************)
EXTENDS Integers, Sequences, FiniteSets, TLC

VARIABLES
    \* the scan loop, run_monitoring
    autoExecute,    \* the auto_execute argument
    scanPc,         \* position of the loop
    symIdx,         \* index of the symbol of the for loop
    round,          \* iterations of "while True" started so far
    symbol,         \* the symbol being scanned, [base, quote]
    prices,         \* fetch_all_prices' result, the quote list handed to the scorer
    investment,     \* investment_amount of calculate_arbitrage_profit
    minProfit,      \* self.min_profit_threshold, in hundredths of a percent
    opps,           \* the list calculate_arbitrage_profit returned
    tickers,        \* the fetch_ticker_async tasks of the gather in fetch_all_prices
    delivery,       \* outcome of send_notification for the symbol: "none", "ok", "failed"
    inflight,       \* the opportunities whose execute_arbitrage has not returned
    started,        \* number of execute_arbitrage calls made so far
    \* one call of execute_arbitrage
    exPc,           \* position inside execute_arbitrage
    exOpp,          \* its opportunity argument
    buyBalance,     \* the buy venue's answer to fetch_balance
    sufficient,     \* balance_check['sufficient']
    buyOrder,       \* buy_order
    withdrawal,     \* outcome of withdraw_crypto: "none", "ok", "failed"
    elapsed,        \* time.time() - start_time inside wait_for_deposit, seconds
    deposit,        \* return value of wait_for_deposit: "none", "True", "False"
    matched,        \* the deposit that made wait_for_deposit return True
    sellOrder,      \* sell_order
    orders,         \* the place_market_order calls of this execution, in order
    result,         \* what execute_arbitrage returned
    \* TriangularArbitrageBot (src/triangular_arbitrage.py)
    markets,        \* the symbols of exchange.load_markets(), in its order
    baseCurrency,   \* self.base_currency
    triangles,      \* the list find_triangular_pairs returned
    triPc,          \* position of run()
    triIdx,         \* index of the triangle of the for loop
    triRound,       \* iterations of run()'s "while True" started so far
    books,          \* what the three fetch_orderbook calls of the scorer met
    triOpp,         \* what calculate_arbitrage_opportunity returned
    triDelivery,    \* outcome of send_telegram_notification: "none", "ok", "failed"
    \* one call of TriangularArbitrageBot.execute_arbitrage
    legPc,          \* position inside execute_arbitrage
    legTriangle,    \* opportunity['triangle']
    legInvestment,  \* investment_amount
    legCalls,       \* the order calls made on the exchange, in order
    legOrders,      \* the list "orders"
    legResult       \* what execute_arbitrage returned: "pending", "orders", "None"

loopVars == <<autoExecute, scanPc, symIdx, round, symbol, prices, investment,
              minProfit, opps, tickers, delivery, inflight, started>>
execVars == <<exPc, exOpp, buyBalance, sufficient, buyOrder, withdrawal, elapsed, deposit,
              matched, sellOrder, orders, result>>
legVars == <<legPc, legTriangle, legInvestment, legCalls, legOrders, legResult>>
triVars == <<markets, baseCurrency, triangles, triPc, triIdx, triRound, books, triOpp,
             triDelivery, legVars>>
vars == <<loopVars, execVars, triVars>>

None == 0 - 1

-----------------------------------------------------------------------------
(* Exact integer arithmetic beyond 32 bits *)

BigBase == 100 * 100

Abs(n) == IF n < 0 THEN -n ELSE n

RECURSIVE BigOf(_)
\* the digits of a small n >= 0
BigOf(n) == IF n = 0 THEN <<>> ELSE <<n % BigBase>> \o BigOf(n \div BigBase)

RECURSIVE BigStrip(_)
\* drop leading (most significant) zero digits
BigStrip(a) ==
    IF a = <<>> THEN <<>>
    ELSE IF a[Len(a)] = 0 THEN BigStrip(SubSeq(a, 1, Len(a) - 1))
    ELSE a

RECURSIVE BigMulC(_, _, _)
BigMulC(a, k, carry) ==
    IF a = <<>> THEN BigOf(carry)
    ELSE LET t == Head(a) * k + carry
         IN  <<t % BigBase>> \o BigMulC(Tail(a), k, t \div BigBase)

\* a * k for a small k in 0 .. 200000
BigMul(a, k) == IF k = 0 THEN <<>> ELSE BigMulC(a, k, 0)

RECURSIVE BigCmp(_, _)
\* -1, 0, 1 as a < b, a = b, a > b (both stripped)
BigCmp(a, b) ==
    IF Len(a) # Len(b) THEN (IF Len(a) < Len(b) THEN -1 ELSE 1)
    ELSE IF a = <<>> THEN 0
    ELSE IF a[Len(a)] # b[Len(b)] THEN (IF a[Len(a)] < b[Len(b)] THEN -1 ELSE 1)
    ELSE BigCmp(SubSeq(a, 1, Len(a) - 1), SubSeq(b, 1, Len(b) - 1))

RECURSIVE BigAddC(_, _, _)
BigAddC(a, b, carry) ==
    IF a = <<>> /\ b = <<>> THEN BigOf(carry)
    ELSE LET x == IF a = <<>> THEN 0 ELSE Head(a)
             y == IF b = <<>> THEN 0 ELSE Head(b)
             t == x + y + carry
         IN  <<t % BigBase>> \o
             BigAddC(IF a = <<>> THEN <<>> ELSE Tail(a),
                     IF b = <<>> THEN <<>> ELSE Tail(b), t \div BigBase)

BigAdd(a, b) == BigAddC(a, b, 0)

RECURSIVE BigSubC(_, _, _)
\* a - b - borrow for a >= b
BigSubC(a, b, borrow) ==
    IF a = <<>> THEN <<>>
    ELSE LET y == IF b = <<>> THEN 0 ELSE Head(b)
             t == Head(a) - y - borrow
         IN  <<IF t < 0 THEN t + BigBase ELSE t>> \o
             BigSubC(Tail(a), IF b = <<>> THEN <<>> ELSE Tail(b),
                     IF t < 0 THEN 1 ELSE 0)

BigSub(a, b) == BigStrip(BigSubC(a, b, 0))

RECURSIVE BigDivC(_, _, _)
\* the digits of floor(a / k), most significant digit of a first
BigDivC(a, k, rem) ==
    IF a = <<>> THEN <<>>
    ELSE LET t == rem * BigBase + a[Len(a)]
         IN  BigDivC(SubSeq(a, 1, Len(a) - 1), k, t % k) \o <<t \div k>>

\* floor(a / k) for a small k in 1 .. 200000
BigDiv(a, k) == BigStrip(BigDivC(a, k, 0))

RECURSIVE BigToInt(_)
\* the value of a, for a below 2^31
BigToInt(a) == IF a = <<>> THEN 0 ELSE Head(a) + BigBase * BigToInt(Tail(a))

\* signed numbers: [neg, mag], zero is never negative
SAdd(x, y) ==
    IF x.neg = y.neg THEN [neg |-> x.neg, mag |-> BigAdd(x.mag, y.mag)]
    ELSE LET c == BigCmp(x.mag, y.mag)
         IN  IF c = 0 THEN [neg |-> FALSE, mag |-> <<>>]
             ELSE IF c > 0 THEN [neg |-> x.neg, mag |-> BigSub(x.mag, y.mag)]
             ELSE [neg |-> y.neg, mag |-> BigSub(y.mag, x.mag)]

SCmp(x, y) ==
    IF x.neg /\ ~y.neg THEN -1
    ELSE IF ~x.neg /\ y.neg THEN 1
    ELSE IF x.neg THEN BigCmp(y.mag, x.mag)
    ELSE BigCmp(x.mag, y.mag)

-----------------------------------------------------------------------------
(* Python floats: IEEE 754 binary64, round to nearest, ties to even.  A     *)
(* float is [neg, mant, exp] with the value (-1)^neg * mant * 2^exp, mant   *)
(* an odd integer below 2^MantBits held as digits; zero is FZero.  Every    *)
(* operation computes the exact result and rounds it once, as the hardware  *)
(* does.  Infinities, NaN and subnormals do not occur in the amounts here.  *)

MantBits == 53

FZero == [neg |-> FALSE, mant |-> <<>>, exp |-> 0]

RECURSIVE BigModC(_, _, _)
BigModC(a, k, rem) ==
    IF a = <<>> THEN rem
    ELSE BigModC(SubSeq(a, 1, Len(a) - 1), k, (rem * BigBase + a[Len(a)]) % k)

\* a mod k for a small k in 1 .. 200000
BigMod(a, k) == BigModC(a, k, 0)

BigOdd(a) == a # <<>> /\ a[1] % 2 = 1

RECURSIVE BigTimes(_, _)
\* a * b
BigTimes(a, b) ==
    IF a = <<>> \/ b = <<>> THEN <<>>
    ELSE BigStrip(BigAdd(BigMul(a, Head(b)), <<0>> \o BigTimes(a, Tail(b))))

RECURSIVE SmallBitLen(_)
SmallBitLen(n) == IF n = 0 THEN 0 ELSE 1 + SmallBitLen(n \div 2)

RECURSIVE BitLen(_)
\* the number of bits of a
BitLen(a) ==
    IF a = <<>> THEN 0
    ELSE IF Len(a) > 1 THEN 13 + BitLen(BigDiv(a, 2^13))
    ELSE SmallBitLen(a[1])

RECURSIVE ShiftLeft(_, _)
\* a * 2^s
ShiftLeft(a, s) ==
    IF s = 0 THEN a
    ELSE IF s >= 15 THEN ShiftLeft(BigMul(a, 2^15), s - 15)
    ELSE BigMul(a, 2^s)

RECURSIVE ShiftRight(_, _)
\* floor(a / 2^s)
ShiftRight(a, s) ==
    IF s = 0 \/ a = <<>> THEN a
    ELSE IF s >= 15 THEN ShiftRight(BigDiv(a, 2^15), s - 15)
    ELSE BigDiv(a, 2^s)

RECURSIVE LowBitsZero(_, _)
\* a mod 2^s = 0
LowBitsZero(a, s) ==
    IF s = 0 \/ a = <<>> THEN TRUE
    ELSE IF s >= 15 THEN BigMod(a, 2^15) = 0 /\ LowBitsZero(BigDiv(a, 2^15), s - 15)
    ELSE BigMod(a, 2^s) = 0

RECURSIVE FNorm(_, _, _)
\* the float of value m * 2^e for m below 2^MantBits + 1: trailing zero bits
\* of m go to the exponent
FNorm(neg, m, e) ==
    IF m = <<>> THEN FZero
    ELSE IF m[1] % 16 = 0 THEN FNorm(neg, BigDiv(m, 16), e + 4)
    ELSE IF m[1] % 2 = 0 THEN FNorm(neg, BigDiv(m, 2), e + 1)
    ELSE [neg |-> neg, mant |-> m, exp |-> e]

\* m * 2^e rounded to MantBits bits, ties to even
FRound(neg, m, e) ==
    LET L == BitLen(m)
    IN  IF L <= MantBits THEN FNorm(neg, m, e)
        ELSE LET s == L - MantBits
                 h == ShiftRight(m, s - 1)
                 q == BigDiv(h, 2)
                 sticky == ~LowBitsZero(m, s - 1)
                 up == BigOdd(h) /\ (sticky \/ BigOdd(q))
             IN  FNorm(neg, IF up THEN BigAdd(q, <<1>>) ELSE q, e + s)

\* float(n) of an integer n
FInt(n) == FNorm(n < 0, BigOf(Abs(n)), 0)

FNeg(x) == IF x = FZero THEN FZero ELSE [x EXCEPT !.neg = ~x.neg]

FMinExp(x, y) == IF x.exp < y.exp THEN x.exp ELSE y.exp

\* x + y
FAdd(x, y) ==
    IF x = FZero THEN y
    ELSE IF y = FZero THEN x
    ELSE LET e == FMinExp(x, y)
             s == SAdd([neg |-> x.neg, mag |-> ShiftLeft(x.mant, x.exp - e)],
                       [neg |-> y.neg, mag |-> ShiftLeft(y.mant, y.exp - e)])
         IN  FRound(s.neg, s.mag, e)

\* x - y
FSub(x, y) == FAdd(x, FNeg(y))

\* x * y
FMul(x, y) == FRound(x.neg # y.neg, BigTimes(x.mant, y.mant), x.exp + y.exp)

RECURSIVE BigDigit(_, _, _, _)
\* the largest g in lo .. hi with g * d <= r
BigDigit(r, d, lo, hi) ==
    IF lo = hi THEN lo
    ELSE LET mid == (lo + hi + 1) \div 2
         IN  IF BigCmp(BigMul(d, mid), r) <= 0
             THEN BigDigit(r, d, mid, hi)
             ELSE BigDigit(r, d, lo, mid - 1)

RECURSIVE BigLongDiv(_, _, _)
\* long division of n by d, most significant digit of n first: [q, r]
BigLongDiv(n, d, rem) ==
    IF n = <<>> THEN [q |-> <<>>, r |-> rem]
    ELSE LET r1 == BigStrip(<<n[Len(n)]>> \o rem)
             g == BigDigit(r1, d, 0, BigBase - 1)
             rest == BigLongDiv(SubSeq(n, 1, Len(n) - 1), d, BigSub(r1, BigMul(d, g)))
         IN  [q |-> rest.q \o <<g>>, r |-> rest.r]

\* floor(n / d) and whether n mod d is not zero; a divisor of one digit is
\* divided by directly
BigQuotient(n, d) ==
    IF Len(d) = 1
    THEN [q |-> BigDiv(n, d[1]), inexact |-> BigMod(n, d[1]) # 0]
    ELSE LET qr == BigLongDiv(n, d, <<>>)
         IN  [q |-> BigStrip(qr.q), inexact |-> qr.r # <<>>]

\* x / y for y # 0: the quotient of the mantissas to MantBits + 2 bits and a
\* bit that says whether the division left a remainder, rounded
FDiv(x, y) ==
    IF x = FZero THEN FZero
    ELSE LET d == MantBits + 2 + BitLen(y.mant) - BitLen(x.mant)
             k == IF d > 0 THEN d ELSE 0
             qr == BigQuotient(ShiftLeft(x.mant, k), y.mant)
             m == BigAdd(BigMul(qr.q, 2), IF qr.inexact THEN <<1>> ELSE <<>>)
         IN  FRound(x.neg # y.neg, m, x.exp - y.exp - k - 1)

\* -1, 0, 1 as x < y, x = y, x > y
FCmp(x, y) ==
    LET e == FMinExp(x, y)
    IN  SCmp([neg |-> x.neg, mag |-> ShiftLeft(x.mant, x.exp - e)],
             [neg |-> y.neg, mag |-> ShiftLeft(y.mant, y.exp - e)])

\* the float of the decimal literal n / scale (a literal is read as the
\* nearest float, which is what dividing the two integers gives)
FLiteral(n, scale) == FDiv(FInt(n), FInt(scale))

-----------------------------------------------------------------------------
(* Configuration tables of the bot *)

\* fee rates and withdrawal fees are held in units of 1/FeeScale
FeeScale == 100 * 100

\* thresholds are held in hundredths of a percent, so 100 percent is:
HundredPercent == 100 * 100

\* self.min_profit_threshold = 1.0 (percent)
MinProfitDefault == 100

\* get_trading_fee: the taker fee of a venue, default 0.002
get_trading_fee(exchange_id) ==
    CASE exchange_id = "binance" -> 10
      [] exchange_id = "kucoin"  -> 10
      [] exchange_id = "okx"     -> 8
      [] exchange_id = "bybit"   -> 10
      [] exchange_id = "gate"    -> 20
      [] OTHER                   -> 20

\* get_withdrawal_fee: fixed fee in base currency, 0 when not tabulated
get_withdrawal_fee(exchange_id, sym) ==
    LET base_currency == sym.base
    IN  CASE exchange_id = "binance" /\ base_currency = "BTC"  -> 5
          [] exchange_id = "binance" /\ base_currency = "ETH"  -> 50
          [] exchange_id = "binance" /\ base_currency = "USDT" -> 10000
          [] exchange_id = "kucoin"  /\ base_currency = "BTC"  -> 5
          [] exchange_id = "kucoin"  /\ base_currency = "ETH"  -> 100
          [] exchange_id = "kucoin"  /\ base_currency = "USDT" -> 10000
          [] exchange_id = "okx"     /\ base_currency = "BTC"  -> 4
          [] exchange_id = "okx"     /\ base_currency = "ETH"  -> 60
          [] exchange_id = "okx"     /\ base_currency = "USDT" -> 8000
          [] OTHER -> 0

\* estimate_transfer_time, in minutes, default 30
estimate_transfer_time(from_exchange, to_exchange) ==
    CASE from_exchange = "binance" /\ to_exchange = "kucoin" -> 15
      [] from_exchange = "binance" /\ to_exchange = "okx"    -> 10
      [] from_exchange = "kucoin"  /\ to_exchange = "okx"    -> 20
      [] OTHER -> 30

-----------------------------------------------------------------------------
(* The cross-venue scorer, calculate_arbitrage_profit *)

\* Python truthiness of a price: None and 0 are falsy
Falsy(p) == p = None \/ p = 0

\* the entries of the fee tables, in units of 1/FeeScale
FeeUnits == {0, 4, 5, 8, 10, 20, 50, 60, 100, 8000, 10000}

\* the float of each fee literal, and of 1 - fee for it
FeeFloats == [n \in FeeUnits |-> FLiteral(n, FeeScale)]
OneMinusFees == [n \in FeeUnits |-> FSub(FInt(1), FeeFloats[n])]

\* a fee of the tables above as the float of its literal
FeeFloat(n) == FeeFloats[n]

\* 1 - fee, as lines 101 and 107 compute it
OneMinusFee(n) == OneMinusFees[n]

\* the float of each threshold literal, thresholds being held in hundredths
\* of a percent
ThresholdFloats == [thr \in 0..HundredPercent |-> FLiteral(thr, 100)]

\* a threshold in hundredths of a percent as the float of its literal
ThresholdFloat(thr) == ThresholdFloats[thr]

\* amount_bought = (investment_amount / buy_price) * (1 - buy_fee)
AmountBought(buy, inv) ==
    FMul(FDiv(FInt(inv), FInt(buy.ask)), OneMinusFee(get_trading_fee(buy.exchange)))

\* amount_after_withdrawal = amount_bought - withdrawal_fee
AmountAfterWithdrawal(buy, inv) ==
    FSub(AmountBought(buy, inv), FeeFloat(get_withdrawal_fee(buy.exchange, buy.symbol)))

\* (variant: the sell venue's fee is left out)
AmountAfterSellNoFee(buy, sell, inv) ==
    FMul(AmountAfterWithdrawal(buy, inv), FInt(sell.bid))

\* (variant: the sale is priced at the sell venue's ask)
AmountAfterSellAtAsk(buy, sell, inv) ==
    FMul(FMul(AmountAfterWithdrawal(buy, inv), FInt(sell.ask)),
         OneMinusFee(get_trading_fee(sell.exchange)))

\* amount_after_sell = (amount_after_withdrawal * sell_price) * (1 - sell_fee)
AmountAfterSell(buy, sell, inv) ==
    FMul(FMul(AmountAfterWithdrawal(buy, inv), FInt(sell.bid)),
         OneMinusFee(get_trading_fee(sell.exchange)))

\* profit = amount_after_sell - investment_amount
Profit(buy, sell, inv) == FSub(AmountAfterSell(buy, sell, inv), FInt(inv))

\* profit_percent = (profit / investment_amount) * 100, for an investment
\* that is not 0
PercentOf(profit, inv) == FMul(FDiv(profit, FInt(inv)), FInt(100))

ProfitPercent(buy, sell, inv) == PercentOf(Profit(buy, sell, inv), inv)

\* -1, 0, 1 as the profit percent p1 is below, equal to, above p2
PercentCmp(p1, p2) == FCmp(p1, p2)

\* profit_percent > thr, thr in hundredths of a percent
PercentAbove(p, thr) == FCmp(p, ThresholdFloat(thr)) > 0

\* floor(|p| * 10^6) with the sign of p, for a profit percent p
PercentMicro(p) ==
    LET m == BigMul(BigMul(p.mant, 100 * 100), 100)
        v == IF p.exp >= 0 THEN ShiftLeft(m, p.exp) ELSE ShiftRight(m, -p.exp)
    IN  IF p.neg THEN -BigToInt(v) ELSE BigToInt(v)

\* the record appended for a pair that passes the threshold
OpportunityOf(buy, sell, inv, profit) ==
    [buy_exchange   |-> buy.exchange,
     sell_exchange  |-> sell.exchange,
     symbol         |-> buy.symbol,
     buy_price      |-> buy.ask,
     sell_price     |-> sell.bid,
     profit_amount  |-> profit,
     profit_percent |-> PercentOf(profit, inv),
     investment     |-> inv,
     transfer_time  |-> estimate_transfer_time(buy.exchange, sell.exchange)]

\* the record of a pair, profit being the value line 109 computed
Opportunity(buy, sell, inv) == OpportunityOf(buy, sell, inv, Profit(buy, sell, inv))

\* the sort key of line 133
OppCmp(o1, o2) == PercentCmp(o1.profit_percent, o2.profit_percent)

\* the index pairs the double loop evaluates: "if i >= j: continue"
PairEvaluated(i, j) == i < j

\* the pair is scored unless a price is falsy
PairScored(ps, i, j) ==
    PairEvaluated(i, j) /\ ~Falsy(ps[i].ask) /\ ~Falsy(ps[j].bid)

\* (variant: a profit equal to the threshold passes)
EmittedAtOrAbove(o, thr) == FCmp(o.profit_percent, ThresholdFloat(thr)) >= 0

\* "if profit_percent > self.min_profit_threshold", o being the record the
\* pair would append
Emitted(o, thr) == PercentAbove(o.profit_percent, thr)

\* what one pair adds to the list: its record o when the pair is scored and
\* passes the threshold (o is computed for a scored pair only)
Appended(scored, o, thr) == IF scored /\ Emitted(o, thr) THEN <<o>> ELSE <<>>

RECURSIVE ScanPairs(_, _, _, _, _)
\* the double loop over enumerate(prices), in iteration order from (i, j)
ScanPairs(ps, inv, thr, i, j) ==
    IF i > Len(ps) THEN <<>>
    ELSE IF j > Len(ps) THEN ScanPairs(ps, inv, thr, i + 1, 1)
    ELSE Appended(PairScored(ps, i, j), Opportunity(ps[i], ps[j], inv), thr)
         \o ScanPairs(ps, inv, thr, i, j + 1)

RECURSIVE InsertDesc(_, _)
\* put o behind every element whose profit_percent is not smaller
InsertDesc(sorted, o) ==
    IF sorted = <<>> THEN <<o>>
    ELSE IF OppCmp(Head(sorted), o) >= 0
         THEN <<Head(sorted)>> \o InsertDesc(Tail(sorted), o)
         ELSE <<o>> \o sorted

RECURSIVE SortedDesc(_)
\* sorted(opportunities, key=profit_percent, reverse=True): stable
SortedDesc(l) ==
    IF l = <<>> THEN <<>>
    ELSE InsertDesc(SortedDesc(SubSeq(l, 1, Len(l) - 1)), l[Len(l)])

\* line 110 divides by investment_amount: with an investment of 0 the first
\* pair that is scored raises ZeroDivisionError
ScorerRaises(ps, inv) ==
    inv = 0 /\ \E i, j \in 1..Len(ps) : PairScored(ps, i, j)

\* the call raises, or returns the sorted list
calculate_arbitrage_profit(ps, inv, thr) ==
    IF ScorerRaises(ps, inv)
    THEN [raised |-> TRUE, opportunities |-> <<>>]
    ELSE [raised |-> FALSE, opportunities |-> SortedDesc(ScanPairs(ps, inv, thr, 1, 1))]

-----------------------------------------------------------------------------
(* Venue responses: what the exchange objects may answer.  A call either   *)
(* raises or answers with a well-formed structure (an order with status,   *)
(* filled and cost; a deposit with amount and status).                     *)

BTCUSDT == [base |-> "BTC", quote |-> "USDT"]
ETHUSDT == [base |-> "ETH", quote |-> "USDT"]

\* place_market_order returns the venue's order, or None when the call raised
NoOrder == [status |-> "None", filled |-> 0, cost |-> 0]

\* responses to the market buy of `investment` quote units (amounts in 1/100 coin)
BuyResponses ==
    {[status |-> "closed",   filled |-> 999, cost |-> 1000],
     [status |-> "open",     filled |-> 400, cost |-> 400],
     [status |-> "canceled", filled |-> 0,   cost |-> 0]}

\* responses to a market sell of `amount`
SellResponses(amount) ==
    {[status |-> "closed", filled |-> amount, cost |-> c] : c \in {990, 1040}}
      \cup {[status |-> "open", filled |-> 0, cost |-> 0]}

\* fetch_balance()['free'].get(quote_currency, 0), or the call raising
NoBalance == [ok |-> FALSE, free |-> 0]

BalanceOutcomes == {NoBalance}
                     \cup {[ok |-> TRUE, free |-> f] : f \in {999, 1000, 2000}}

\* withdraw_crypto: the deposit-address lookup raises or answers, the
\* withdraw call raises or the venue accepts the withdrawal
AddressOutcomes == {"address_error", "ok"}
WithdrawOutcomes == {"withdraw_error", "ok"}

\* the seconds a call of fetch_deposits may take before it answers or raises
CallDurations == {0, 30}

\* one poll of fetch_deposits: the call raises, or a list of deposits
Dep(a, st) == [amount |-> a, status |-> st]

\* no deposit was found
NoDeposit == Dep(0, "None")

DepositLists ==
    {<<>>}
      \cup {<<Dep(a, st)>> : a \in {980, 990, 999, 1500}, st \in {"ok", "pending"}}
      \cup {<<Dep(1, "pending"), Dep(1, "pending"), Dep(1, "pending"),
              Dep(1, "pending"), Dep(1, "pending"), Dep(999, "ok")>>}

-----------------------------------------------------------------------------
(* execute_arbitrage *)

DepositTimeout == 3600
PollSleep == 30
PollErrorSleep == 60

Pending == [ret |-> "pending", buy_order |-> NoOrder, sell_order |-> NoOrder,
            actual_profit |-> 0, expected_profit |-> FZero]
ReturnedNone == [Pending EXCEPT !.ret = "None"]

NoOpp == [buy_exchange |-> "None", sell_exchange |-> "None", symbol |-> [base |-> "None", quote |-> "None"],
          buy_price |-> 0, sell_price |-> 0, profit_amount |-> FZero,
          profit_percent |-> FZero,
          investment |-> 0, transfer_time |-> 0]

Placed(x, side, amount, response) ==
    [exchange |-> x, side |-> side, amount |-> amount, response |-> response]

\* (variant: the comparison with the amount is left out)
SufficientUnchecked(buyBal, sellBal, amount) == buyBal.ok /\ sellBal.ok

\* check_balances: sufficient = available_for_buy >= amount; False when a
\* balance call raises
Sufficient(buyBal, sellBal, amount) ==
    buyBal.ok /\ sellBal.ok /\ buyBal.free >= amount

\* (variant: the status of the order is not looked at)
OrderReturned(order) == order # NoOrder

\* "if not buy_order or buy_order['status'] != 'closed'" is the failure test
OrderClosed(order) == order # NoOrder /\ order.status = "closed"

\* the first five deposits hold one of at least 99% of the expected amount
\* whose status is 'ok'
DepositSeen(deposits, expected_amount) ==
    \E i \in 1..Len(deposits) :
        /\ i <= 5
        /\ deposits[i].amount * 100 >= expected_amount * 99
        /\ deposits[i].status = "ok"

\* the deposit at which the for loop of wait_for_deposit returns True
FirstMatch(deposits, expected_amount) ==
    LET I == {i \in 1..Len(deposits) :
                 /\ i <= 5
                 /\ deposits[i].amount * 100 >= expected_amount * 99
                 /\ deposits[i].status = "ok"}
    IN  deposits[CHOOSE i \in I : \A j \in I : i <= j]

\* the position after withdraw_crypto returned
AfterWithdraw(w) == IF w = "ok" THEN "deposit" ELSE "compensate"

\* (variant: a wait that timed out is answered by a sell on the buy venue)
AfterDepositCompensates(d) == IF d = "True" THEN "sell" ELSE "compensate"

\* the position after wait_for_deposit returned d: its value is not used
AfterDeposit(d) == "sell"

\* (variant: a sell that did not close is placed again)
AfterSellRetry(o) == IF o # NoOrder /\ o.status = "closed" THEN "done" ELSE "sell"

\* the position after the sell on the sell venue: both branches return
AfterSell(o) == "done"

ExecReturn(r) ==
    /\ result' = r
    /\ exPc' = "done"

\* the awaits of execute_arbitrage on a venue: the two fetch_balance of
\* check_balances, the order calls, the two calls of withdraw_crypto,
\* fetch_deposits inside the wait loop
Awaiting ==
    \/ exPc \in {"balance", "balance_sell", "buy", "withdraw", "withdraw_send",
                 "compensate", "sell"}
    \/ exPc = "deposit" /\ elapsed < DepositTimeout

\* the awaits of asyncio.sleep in wait_for_deposit
Sleeping == exPc \in {"poll_sleep", "error_sleep"}

\* step 1, check_balances, first await: fetch_balance of the buy venue.  When
\* it raises, the except clause returns {'sufficient': False} and the sell
\* venue is not asked.
CheckBalancesBuy ==
    /\ exPc = "balance"
    /\ \E b \in BalanceOutcomes :
         /\ buyBalance' = b
         /\ IF b.ok
            THEN exPc' = "balance_sell" /\ UNCHANGED <<sufficient, result>>
            ELSE sufficient' = FALSE /\ ExecReturn(ReturnedNone)
    /\ UNCHANGED <<exOpp, buyOrder, withdrawal, elapsed, deposit, matched, sellOrder, orders>>
    /\ UNCHANGED loopVars
    /\ UNCHANGED triVars

\* check_balances, second await: fetch_balance of the sell venue, then the
\* comparison and "if not balance_check['sufficient']: return None"
CheckBalancesSell ==
    /\ exPc = "balance_sell"
    /\ \E sb \in BalanceOutcomes :
         /\ sufficient' = Sufficient(buyBalance, sb, exOpp.investment)
         /\ IF sufficient'
            THEN exPc' = "buy" /\ UNCHANGED result
            ELSE ExecReturn(ReturnedNone)
    /\ UNCHANGED <<exOpp, buyBalance, buyOrder, withdrawal, elapsed, deposit, matched,
                   sellOrder, orders>>
    /\ UNCHANGED loopVars
    /\ UNCHANGED triVars

\* step 2: market buy on the buy venue
PlaceBuy ==
    /\ exPc = "buy"
    /\ \E o \in BuyResponses \cup {NoOrder} :
         /\ buyOrder' = o
         /\ orders' = Append(orders, Placed(exOpp.buy_exchange, "buy", exOpp.investment, o))
         /\ IF OrderClosed(o)
            THEN exPc' = "withdraw" /\ UNCHANGED result
            ELSE ExecReturn(ReturnedNone)
    /\ UNCHANGED <<exOpp, buyBalance, sufficient, withdrawal, elapsed, deposit, matched,
                   sellOrder>>
    /\ UNCHANGED loopVars
    /\ UNCHANGED triVars

\* step 3, withdraw_crypto, first await: the deposit address of the sell
\* venue.  When the call raises, withdraw_crypto returns None.
WithdrawAddress ==
    /\ exPc = "withdraw"
    /\ \E w \in AddressOutcomes :
         IF w = "ok"
         THEN exPc' = "withdraw_send" /\ UNCHANGED withdrawal
         ELSE withdrawal' = "failed" /\ exPc' = AfterWithdraw(w)
    /\ UNCHANGED <<exOpp, buyBalance, sufficient, buyOrder, elapsed, deposit, matched,
                   sellOrder, orders, result>>
    /\ UNCHANGED loopVars
    /\ UNCHANGED triVars

\* withdraw_crypto, second await: the withdraw call on the buy venue; on
\* success wait_for_deposit is entered and takes its start_time
WithdrawSend ==
    /\ exPc = "withdraw_send"
    /\ \E w \in WithdrawOutcomes :
         /\ withdrawal' = IF w = "ok" THEN "ok" ELSE "failed"
         /\ exPc' = AfterWithdraw(w)
    /\ elapsed' = 0
    /\ UNCHANGED <<exOpp, buyBalance, sufficient, buyOrder, deposit, matched, sellOrder, orders,
                   result>>
    /\ UNCHANGED loopVars
    /\ UNCHANGED triVars

\* "if not withdrawal": sell back on the buy venue, return None
Compensate ==
    /\ exPc = "compensate"
    /\ \E o \in SellResponses(buyOrder.filled) \cup {NoOrder} :
         orders' = Append(orders, Placed(exOpp.buy_exchange, "sell", buyOrder.filled, o))
    /\ ExecReturn(ReturnedNone)
    /\ UNCHANGED <<exOpp, buyBalance, sufficient, buyOrder, withdrawal, elapsed, deposit, matched,
                   sellOrder>>
    /\ UNCHANGED loopVars
    /\ UNCHANGED triVars

\* step 4, wait_for_deposit: the while condition holds and fetch_deposits is
\* awaited; it answers or raises after d seconds.  elapsed is
\* time.time() - start_time.
DepositFetch ==
    /\ exPc = "deposit"
    /\ elapsed < DepositTimeout
    /\ \E d \in CallDurations :
         /\ elapsed' = elapsed + d
         /\ \/ \E ds \in DepositLists :
                 IF DepositSeen(ds, buyOrder.filled)
                 THEN /\ deposit' = "True"
                      /\ matched' = FirstMatch(ds, buyOrder.filled)
                      /\ exPc' = AfterDeposit("True")
                 ELSE /\ exPc' = "poll_sleep"
                      /\ UNCHANGED <<deposit, matched>>
            \/ /\ exPc' = "error_sleep"
               /\ UNCHANGED <<deposit, matched>>
    /\ UNCHANGED <<exOpp, buyBalance, sufficient, buyOrder, withdrawal, sellOrder, orders, result>>
    /\ UNCHANGED loopVars
    /\ UNCHANGED triVars

\* asyncio.sleep(30) after a poll without the deposit, asyncio.sleep(60) after
\* a poll that raised; then the while condition is tested again
DepositSleep ==
    /\ Sleeping
    /\ elapsed' = elapsed + (IF exPc = "poll_sleep" THEN PollSleep ELSE PollErrorSleep)
    /\ exPc' = "deposit"
    /\ UNCHANGED <<exOpp, buyBalance, sufficient, buyOrder, withdrawal, deposit, matched,
                   sellOrder, orders, result>>
    /\ UNCHANGED loopVars
    /\ UNCHANGED triVars

\* the while condition fails: wait_for_deposit returns False
DepositTimedOut ==
    /\ exPc = "deposit"
    /\ elapsed >= DepositTimeout
    /\ deposit' = "False"
    /\ exPc' = AfterDeposit("False")
    /\ UNCHANGED <<exOpp, buyBalance, sufficient, buyOrder, withdrawal, elapsed, matched,
                   sellOrder, orders, result>>
    /\ UNCHANGED loopVars
    /\ UNCHANGED triVars

\* step 5: market sell on the sell venue
PlaceSell ==
    /\ exPc = "sell"
    /\ \E o \in SellResponses(buyOrder.filled) \cup {NoOrder} :
         /\ sellOrder' = o
         /\ orders' = Append(orders, Placed(exOpp.sell_exchange, "sell", buyOrder.filled, o))
         /\ result' = IF OrderClosed(o)
                       THEN [ret |-> "success", buy_order |-> buyOrder, sell_order |-> o,
                             actual_profit |-> o.cost - exOpp.investment,
                             expected_profit |-> exOpp.profit_amount]
                       ELSE ReturnedNone
         /\ exPc' = AfterSell(o)
    /\ UNCHANGED <<exOpp, buyBalance, sufficient, buyOrder, withdrawal, elapsed, deposit, matched>>
    /\ UNCHANGED loopVars
    /\ UNCHANGED triVars

\* a venue call that never answers: no await of execute_arbitrage carries a
\* timeout, the coroutine stays suspended at it
VenueSilent ==
    /\ Awaiting
    /\ exPc' = "blocked"
    /\ UNCHANGED <<exOpp, buyBalance, sufficient, buyOrder, withdrawal, elapsed, deposit, matched,
                   sellOrder, orders, result>>
    /\ UNCHANGED loopVars
    /\ UNCHANGED triVars

\* the awaits of run_monitoring outside execute_arbitrage: gather inside
\* fetch_all_prices (line 65), send_notification (line 354), sleep(5) (line
\* 364) and sleep(10) of the handler (line 368)
LoopAwaiting == scanPc \in {"fetching", "notify", "sleep", "errsleep"}

\* the task is cancelled (task.cancel()): CancelledError is raised at the await
\* the task is suspended at, a venue call that never answers included.  It is
\* a BaseException (Python 3.8 and later), so no "except Exception" handles
\* it, neither that of the called method, nor that of execute_arbitrage, nor
\* that of run_monitoring: the task ends, and what execute_arbitrage had done
\* stays as it is.
Cancel ==
    /\ \/ /\ LoopAwaiting
          /\ UNCHANGED exPc
       \/ /\ scanPc = "executing"
          /\ Awaiting \/ Sleeping \/ exPc = "blocked"
          /\ exPc' = "cancelled"
    /\ scanPc' = "cancelled"
    /\ UNCHANGED <<exOpp, buyBalance, sufficient, buyOrder, withdrawal, elapsed, deposit, matched,
                   sellOrder, orders, result>>
    /\ UNCHANGED <<autoExecute, symIdx, round, symbol, prices, investment, minProfit, opps,
                   tickers, delivery, inflight, started>>
    /\ UNCHANGED triVars

ExecIdle ==
    /\ exPc = "idle"
    /\ exOpp = NoOpp
    /\ buyBalance = NoBalance
    /\ sufficient = FALSE
    /\ buyOrder = NoOrder
    /\ withdrawal = "none"
    /\ elapsed = 0
    /\ deposit = "none"
    /\ matched = NoDeposit
    /\ sellOrder = NoOrder
    /\ orders = <<>>
    /\ result = Pending

\* the locals of a call that has returned are gone
ExecReset ==
    /\ exPc' = "idle"
    /\ exOpp' = NoOpp
    /\ buyBalance' = NoBalance
    /\ sufficient' = FALSE
    /\ buyOrder' = NoOrder
    /\ withdrawal' = "none"
    /\ elapsed' = 0
    /\ deposit' = "none"
    /\ matched' = NoDeposit
    /\ sellOrder' = NoOrder
    /\ orders' = <<>>
    /\ result' = Pending

-----------------------------------------------------------------------------
(* TriangularArbitrageBot: records shared by its parts *)

Pair(b, q) == [base |-> b, quote |-> q]

\* an element of triangular_pairs: 'path' and 'currencies'
Triangle(pair_a, pair_b, pair_c, base_currency) ==
    [path |-> <<pair_a, pair_b, pair_c>>,
     currencies |-> <<base_currency, pair_a.base, pair_b.quote, base_currency>>]

NoTriangle == [path |-> <<>>, currencies |-> <<>>]

\* calculate_arbitrage_opportunity returned None
NoTriOpp == [ok |-> FALSE, triangle |-> NoTriangle, profit_percent |-> FZero,
             profit_amount |-> FZero, final_amount |-> FZero]

\* no call of the triangular execute_arbitrage is under way
LegIdle ==
    /\ legPc = "off"
    /\ legTriangle = NoTriangle
    /\ legInvestment = 0
    /\ legCalls = <<>>
    /\ legOrders = <<>>
    /\ legResult = "pending"

\* the bot is not running
TriIdle ==
    /\ markets = <<>>
    /\ baseCurrency = "None"
    /\ triangles = <<>>
    /\ triPc = "off"
    /\ triIdx = 1
    /\ triRound = 1
    /\ books = <<>>
    /\ triOpp = NoTriOpp
    /\ triDelivery = "none"
    /\ LegIdle

-----------------------------------------------------------------------------
(* fetch_all_prices *)

\* the venues of self.exchanges, in the order of the configuration
Exchanges == <<"bybit", "binance">>

NoQuote == [exchange |-> "None", symbol |-> [base |-> "None", quote |-> "None"],
            bid |-> None, ask |-> None]

\* what a venue answers to fetch_ticker: an error, or a ticker
TickerOutcomes ==
    {[ok |-> FALSE, bid |-> None, ask |-> None]}
      \cup {[ok |-> TRUE, bid |-> b, ask |-> a] : b \in {None, 102, 105}, a \in {None, 100}}

\* fetch_ticker_async: the quote, or None when the venue call raised
fetch_ticker_async(exchange_id, sym, out) ==
    IF out.ok THEN [exchange |-> exchange_id, symbol |-> sym, bid |-> out.bid, ask |-> out.ask]
    ELSE NoQuote

\* gather in the order of self.exchanges, then keep the results that are not None
fetch_all_prices(sym, outs) ==
    SelectSeq([i \in 1..Len(Exchanges) |-> fetch_ticker_async(Exchanges[i], sym, outs[i])],
              LAMBDA r : r # NoQuote)

\* one task of the gather: the venue it asks and what the venue does.  The
\* venue answers (a ticker or an error), or it never answers: the await of
\* line 46 has no timeout.
Task(exchange_id, answered, out) ==
    [exchange |-> exchange_id, answered |-> answered, out |-> out]

VenueReplies ==
    {[answered |-> TRUE, out |-> o] : o \in TickerOutcomes}
      \cup {[answered |-> FALSE, out |-> [ok |-> FALSE, bid |-> None, ask |-> None]]}

\* "for exchange_id in self.exchanges.keys()": one task per configured venue
TasksOf(replies) ==
    [i \in 1..Len(Exchanges) |-> Task(Exchanges[i], replies[i].answered, replies[i].out)]

\* gather returns when every task has returned
GatherDone(ts) == \A i \in 1..Len(ts) : ts[i].answered

-----------------------------------------------------------------------------
(* run_monitoring *)

MaxRounds == 2

Symbols == <<BTCUSDT, ETHUSDT>>

\* investment_amount=1000 of the call in the loop
LoopInvestment == 1000

\* "best['profit_percent'] > 2.0"
ExecuteThreshold == 200

\* the send_notification call: it returns, or an exception leaves the try block.
\* CrossExchangeArbitrageBot defines no send_notification: as the class stands
\* the call raises AttributeError, and it returns only where the method is
\* supplied; a delivery error of a supplied method is an exception as well.
NotifyOutcomes == {"ok", "raises"}

\* (variant: the call is started as a task and the loop scans on)
LoopScansOn == "fetch"

\* the loop awaits execute_arbitrage: its position while the call runs
LoopAfterHandOff == "executing"

\* the position after the handler of "except Exception" slept: the next
\* iteration of "while True"
LoopAfterError == "fetch"

\* the for loop moves to the next symbol, or the round ends with sleep(5)
\* (prices and opportunities are assigned anew before their next use: they are
\* cleared here)
NextSymbol ==
    /\ prices' = <<>>
    /\ opps' = <<>>
    /\ tickers' = <<>>
    /\ delivery' = "none"
    /\ IF symIdx < Len(Symbols)
       THEN /\ symIdx' = symIdx + 1
            /\ symbol' = Symbols[symIdx + 1]
            /\ scanPc' = "fetch"
       ELSE /\ scanPc' = "sleep"
            /\ UNCHANGED <<symIdx, symbol>>

\* fetch_all_prices creates the tasks and awaits gather
StartFetch ==
    /\ scanPc = "fetch"
    /\ \E replies \in [1..Len(Exchanges) -> VenueReplies] :
         tickers' = TasksOf(replies)
    /\ scanPc' = "fetching"
    /\ UNCHANGED <<autoExecute, symIdx, round, symbol, prices, investment, minProfit,
                   opps, delivery, inflight, started>>
    /\ UNCHANGED execVars
    /\ UNCHANGED triVars

\* gather returned: fetch_all_prices returns the valid results
FetchAllPrices ==
    /\ scanPc = "fetching"
    /\ GatherDone(tickers)
    /\ prices' = fetch_all_prices(symbol, [i \in 1..Len(tickers) |-> tickers[i].out])
    /\ scanPc' = "fetched"
    /\ UNCHANGED <<autoExecute, symIdx, round, symbol, investment, minProfit,
                   opps, tickers, delivery, inflight, started>>
    /\ UNCHANGED execVars
    /\ UNCHANGED triVars

\* "if len(prices) < 2: continue"
CheckQuotes ==
    /\ scanPc = "fetched"
    /\ IF Len(prices) < 2
       THEN NextSymbol
       ELSE /\ scanPc' = "score"
            /\ tickers' = <<>>
            /\ UNCHANGED <<symIdx, symbol, prices, opps, delivery>>
    /\ UNCHANGED <<autoExecute, round, investment, minProfit, inflight, started>>
    /\ UNCHANGED execVars
    /\ UNCHANGED triVars

\* what the round does with r, the outcome of the scorer
RoundScored(r) ==
    IF r.raised
    THEN /\ scanPc' = "errsleep"
         /\ UNCHANGED <<symIdx, symbol, prices, opps, tickers, delivery>>
    ELSE IF r.opportunities = <<>>
    THEN NextSymbol
    ELSE /\ opps' = r.opportunities
         /\ scanPc' = "notify"
         /\ UNCHANGED <<symIdx, symbol, prices, tickers, delivery>>

ScoreRound ==
    /\ scanPc = "score"
    /\ RoundScored(calculate_arbitrage_profit(prices, investment, minProfit))
    /\ UNCHANGED <<autoExecute, round, investment, minProfit, inflight, started>>
    /\ UNCHANGED execVars
    /\ UNCHANGED triVars

\* the position after send_notification: an exception leaves the for loop for
\* the handler of line 366
AfterNotify(n) == IF n = "ok" THEN "gate" ELSE "errsleep"

Notify ==
    /\ scanPc = "notify"
    /\ \E n \in NotifyOutcomes :
         /\ delivery' = IF n = "ok" THEN "ok" ELSE "failed"
         /\ scanPc' = AfterNotify(n)
    /\ UNCHANGED <<autoExecute, symIdx, round, symbol, prices, investment, minProfit,
                   opps, tickers, inflight, started>>
    /\ UNCHANGED execVars
    /\ UNCHANGED triVars

\* (variant: the auto_execute flag is not looked at)
GateWithoutFlag(auto, best) ==
    PercentAbove(best.profit_percent, ExecuteThreshold)

\* "if auto_execute and best['profit_percent'] > 2.0"
Gate(auto, best) ==
    auto /\ PercentAbove(best.profit_percent, ExecuteThreshold)

\* the gate passes: execute_arbitrage(best) is called
HandOff ==
    /\ scanPc = "gate"
    /\ Gate(autoExecute, opps[1])
    /\ scanPc' = LoopAfterHandOff
    /\ inflight' = Append(inflight, opps[1])
    /\ started' = started + 1
    /\ exPc' = "balance"
    /\ exOpp' = opps[1]
    /\ buyBalance' = NoBalance
    /\ sufficient' = FALSE
    /\ buyOrder' = NoOrder
    /\ withdrawal' = "none"
    /\ elapsed' = 0
    /\ deposit' = "none"
    /\ matched' = NoDeposit
    /\ sellOrder' = NoOrder
    /\ orders' = <<>>
    /\ result' = Pending
    /\ UNCHANGED <<autoExecute, symIdx, round, symbol, prices, investment, minProfit, opps,
                   tickers, delivery>>
    /\ UNCHANGED triVars

\* the gate does not pass: on to the next symbol
SkipExecute ==
    /\ scanPc = "gate"
    /\ ~Gate(autoExecute, opps[1])
    /\ NextSymbol
    /\ UNCHANGED <<autoExecute, round, investment, minProfit, inflight, started>>
    /\ UNCHANGED execVars
    /\ UNCHANGED triVars

\* execute_arbitrage returned to the loop
Resume ==
    /\ scanPc = "executing"
    /\ exPc = "done"
    /\ inflight' = Tail(inflight)
    /\ ExecReset
    /\ NextSymbol
    /\ UNCHANGED <<autoExecute, round, investment, minProfit, started>>
    /\ UNCHANGED triVars

\* asyncio.sleep(5) at the end of a round, then the next "while True" iteration
Sleep ==
    /\ scanPc = "sleep"
    /\ round < MaxRounds
    /\ round' = round + 1
    /\ symIdx' = 1
    /\ symbol' = Symbols[1]
    /\ scanPc' = "fetch"
    /\ prices' = <<>>
    /\ opps' = <<>>
    /\ tickers' = <<>>
    /\ delivery' = "none"
    /\ UNCHANGED <<autoExecute, investment, minProfit, inflight, started>>
    /\ UNCHANGED execVars
    /\ UNCHANGED triVars

\* "except Exception": log, asyncio.sleep(10), then the next iteration
ErrorSleep ==
    /\ scanPc = "errsleep"
    /\ round < MaxRounds
    /\ round' = round + 1
    /\ symIdx' = 1
    /\ symbol' = Symbols[1]
    /\ scanPc' = LoopAfterError
    /\ prices' = <<>>
    /\ opps' = <<>>
    /\ tickers' = <<>>
    /\ delivery' = "none"
    /\ UNCHANGED <<autoExecute, investment, minProfit, inflight, started>>
    /\ UNCHANGED execVars
    /\ UNCHANGED triVars

Init ==
    /\ autoExecute \in BOOLEAN
    /\ scanPc = "fetch"
    /\ symIdx = 1
    /\ round = 1
    /\ symbol = Symbols[1]
    /\ prices = <<>>
    /\ investment = LoopInvestment
    /\ minProfit = MinProfitDefault
    /\ opps = <<>>
    /\ tickers = <<>>
    /\ delivery = "none"
    /\ inflight = <<>>
    /\ started = 0
    /\ ExecIdle
    /\ TriIdle

Next ==
    \/ StartFetch
    \/ FetchAllPrices
    \/ CheckQuotes
    \/ ScoreRound
    \/ Notify
    \/ HandOff
    \/ SkipExecute
    \/ Resume
    \/ Sleep
    \/ ErrorSleep
    \/ CheckBalancesBuy
    \/ CheckBalancesSell
    \/ PlaceBuy
    \/ WithdrawAddress
    \/ WithdrawSend
    \/ Compensate
    \/ DepositFetch
    \/ DepositSleep
    \/ DepositTimedOut
    \/ PlaceSell
    \/ VenueSilent
    \/ Cancel

Spec == Init /\ [][Next]_vars

-----------------------------------------------------------------------------
(* Properties of execute_arbitrage and run_monitoring, checked under Spec *)

\* the orders of the running execution, by kind
SellVenueSells ==
    {i \in 1..Len(orders) :
        orders[i].side = "sell" /\ orders[i].exchange = exOpp.sell_exchange}

CompensatingSells ==
    {i \in 1..Len(orders) :
        orders[i].side = "sell" /\ orders[i].exchange = exOpp.buy_exchange}

BuyOrders == {i \in 1..Len(orders) : orders[i].side = "buy"}

Executing ==
    exPc \in {"balance", "balance_sell", "buy", "withdraw", "withdraw_send", "compensate",
             "deposit", "poll_sleep", "error_sleep", "sell", "blocked"}

\* C1: when wait_for_deposit timed out (returned False), the execution ends
\* failed: no sell is placed on the sell venue, no compensating sell on the buy
\* venue, and the call returns None.
C1_DepositTimeoutEndsFailed ==
    deposit = "False" =>
        /\ SellVenueSells = {}
        /\ CompensatingSells = {}
        /\ exPc = "done" => result.ret = "None"

\* the returned outcome r carries the order o
OutcomeRecords(r, o) == r.ret # "None" /\ (r.buy_order = o \/ r.sell_order = o)

\* C2: after a failed withdrawal initiation the execution ends with
\* exactly one compensating sell of the bought amount on the buy venue, no
\* deposit wait, no sell-venue order, a failed outcome, and the compensation
\* order recorded in the outcome.
C2_CompensationRecordedInOutcome ==
    (exPc = "done" /\ withdrawal = "failed") =>
        /\ Len(orders) = 2
        /\ CompensatingSells = {2}
        /\ orders[2].amount = buyOrder.filled
        /\ SellVenueSells = {}
        /\ deposit = "none"
        /\ OutcomeRecords(result, orders[2].response)

\* a leg-placement or transfer-initiation error happened while bought asset
\* was on the buy venue
ErrorWhileAssetOnBuyVenue ==
    /\ buyOrder.filled > 0
    /\ withdrawal # "ok"
    /\ \/ BuyOrders # {} /\ ~OrderClosed(buyOrder)
       \/ withdrawal = "failed"

\* C3: when an execution has ended, a compensating order was attempted if and
\* only if a leg-placement or transfer-initiation error occurred while bought
\* asset was held on the buy venue.
C3_CompensationIffErrorWhileHeld ==
    exPc = "done" => (CompensatingSells # {} <=> ErrorWhileAssetOnBuyVenue)

\* C4: a sell on the sell venue is placed only after the buy order on the buy
\* venue was placed first and observed with status closed.
C4_SellOnlyAfterClosedBuy ==
    \A i \in SellVenueSells :
        /\ i > 1
        /\ orders[1].side = "buy" /\ orders[1].exchange = exOpp.buy_exchange
        /\ orders[1].response = buyOrder
        /\ buyOrder.status = "closed"

C4_Witness ==
    /\ exPc = "done"
    /\ SellVenueSells # {}
    /\ sellOrder.status = "closed"

Combination(o) == <<o.symbol, o.buy_exchange, o.sell_exchange>>

\* C5: no two executions in flight are for the same (asset, venue pair): an
\* execution is never started in parallel with one for the same combination.
C5_OneExecutionPerCombination ==
    \A i, j \in 1..Len(inflight) :
        i # j => Combination(inflight[i]) # Combination(inflight[j])

\* a third execution in flight: two symbols and one evaluated venue pair give
\* two combinations, so one of them is being executed again
C5_Witness ==
    /\ started = 3
    /\ Len(inflight) = 1
    /\ exPc = "deposit"

\* C6: while an execution is in progress the scan loop is at a position from
\* which it goes on scanning, not waiting for the execution to return.
C6_ScanNeverBlocked ==
    Executing => scanPc \in {"fetch", "fetching", "fetched", "score", "notify", "gate", "sleep", "errsleep"}

\* C7: once the buy venue reported a free quote balance below the investment,
\* the execution issues no order and no withdrawal: check_balances asks the
\* sell venue for its balance (its second await) and the call ends with None.
C7_InsufficientFundsNoSideEffects ==
    (buyBalance.ok /\ buyBalance.free < exOpp.investment) =>
        /\ exPc \in {"balance_sell", "blocked", "cancelled", "done"}
        /\ exPc = "done" => result = ReturnedNone
        /\ orders = <<>>
        /\ withdrawal = "none"
        /\ deposit = "none"

C7_Witness ==
    /\ exPc = "done"
    /\ buyBalance.ok
    /\ buyBalance.free = exOpp.investment - 1
    /\ orders = <<>>

\* the venues whose task of the gather in flight returned a ticker / raised
AnsweredVenues == {tickers[k].exchange : k \in {n \in 1..Len(tickers) : tickers[n].out.ok}}
FailedVenues ==
    {tickers[k].exchange :
        k \in {n \in 1..Len(tickers) : tickers[n].answered /\ ~tickers[n].out.ok}}
QueriedVenues == {tickers[k].exchange : k \in 1..Len(tickers)}

\* C15: when fetch_all_prices has returned, its result holds exactly the venues
\* that answered with a ticker, each once, and every quote in it is whole: bid
\* and ask are both set.
C15_QuotesWholeOrAbsent ==
    scanPc = "fetched" =>
        /\ {prices[i].exchange : i \in 1..Len(prices)} = AnsweredVenues
        /\ \A i, j \in 1..Len(prices) : i # j => prices[i].exchange # prices[j].exchange
        /\ \A i \in 1..Len(prices) : prices[i].bid # None /\ prices[i].ask # None

\* C17: with auto_execute off no execution is ever started: no balance is
\* asked for, no order is placed, no withdrawal is made.
C17_NoVenueActionWithoutAutoExecute ==
    ~autoExecute =>
        /\ exPc = "idle"
        /\ started = 0
        /\ inflight = <<>>
        /\ buyBalance = NoBalance
        /\ orders = <<>>
        /\ withdrawal = "none"

\* in a later round, the best opportunity is above 2%, was reported, and the
\* flag is off
C17_Witness ==
    /\ ~autoExecute
    /\ round > 1
    /\ scanPc = "gate"
    /\ delivery = "ok"
    /\ PercentAbove(opps[1].profit_percent, ExecuteThreshold)

\* the loop is handling the best opportunity of a symbol
HandlingBest == scanPc \in {"notify", "gate"}

\* C18: with auto_execute on, whenever the loop leaves the handling of a
\* symbol's best opportunity, it does so by calling execute_arbitrage on it if
\* and only if its profit percent is above the execution threshold, and that
\* threshold is above the reporting threshold.
C18_HandOffIffAboveExecuteThreshold ==
    [][(autoExecute /\ HandlingBest /\ ~HandlingBest') =>
          /\ ExecuteThreshold > minProfit
          /\ (scanPc' = "executing" /\ exOpp' = opps[1]) <=> Gate(TRUE, opps[1])]_vars

\* C19: after a failed delivery of the notification the loop is where it is
\* after a delivery that succeeded: at the test for the hand-off, from which
\* the execution and the remaining symbols of the round follow.
C19_DeliveryFailureNotFatal ==
    delivery = "failed" => scanPc \in {"gate", "executing"}

\* the task was cancelled inside wait_for_deposit: the withdrawal had been
\* accepted and the wait had neither seen the deposit nor timed out
CancelledInDepositWait ==
    exPc = "cancelled" /\ withdrawal = "ok" /\ deposit = "none"

\* C22: when the task is cancelled during the deposit wait, the execution
\* ends with a recorded outcome (the "interrupted" failure); it is not left
\* without one.
C22_CancelledWaitHasOutcome ==
    CancelledInDepositWait => result.ret # "pending"

\* C23: wait_for_deposit returns True only on a deposit of status 'ok' whose
\* amount is within 1% of the expected amount, below and above.
C23_ConfirmedOnlyWithinTolerance ==
    deposit = "True" =>
        /\ matched.status = "ok"
        /\ matched.amount * 100 >= buyOrder.filled * 99
        /\ matched.amount * 100 <= buyOrder.filled * 101

\* C24: when the buy order comes back not closed, the execution has failed
\* with no withdrawal and no order on the sell venue, and what was filled has
\* been sold back on the buy venue.
C24_PartialBuyLiquidated ==
    (exPc = "done" /\ buyOrder # NoOrder /\ buyOrder.status # "closed") =>
        /\ result = ReturnedNone
        /\ withdrawal = "none"
        /\ SellVenueSells = {}
        /\ buyOrder.filled > 0 =>
               \E i \in CompensatingSells : orders[i].amount = buyOrder.filled

\* C25: a sell on the sell venue that raised or did not close is the last
\* thing the execution did: the call has returned None, that sell is the only
\* sell order and the last order, and nothing was sold on the buy venue.
C25_FailedSellEndsExecution ==
    \A i \in SellVenueSells :
        ~OrderClosed(orders[i].response) =>
            /\ exPc = "done"
            /\ result = ReturnedNone
            /\ i = Len(orders)
            /\ SellVenueSells = {i}
            /\ CompensatingSells = {}
            /\ withdrawal = "ok"

C25_Witness ==
    /\ exPc = "done"
    /\ deposit = "True"
    /\ \E i \in SellVenueSells : orders[i].response.status = "open"

\* C26: after a confirmed deposit, the sell on the sell venue is placed for
\* no more than the amount that was deposited.
C26_SellIsForReceivedAmount ==
    \A i \in SellVenueSells :
        deposit = "True" => orders[i].amount <= matched.amount

\* the orders placed on the buy venue
BuyVenueOrders == {i \in 1..Len(orders) : orders[i].exchange = exOpp.buy_exchange}

\* C29: one execution places at most one buy and at most one sell (on the buy
\* venue or on the sell venue, never both); withdraw_crypto is called only
\* after a closed buy and at most once; after a withdrawal that succeeded the
\* only order on the buy venue is the buy that preceded it.
C29_OrdersOfOneExecution ==
    /\ [](/\ Cardinality(BuyOrders) <= 1
          /\ Cardinality(SellVenueSells \cup CompensatingSells) <= 1
          /\ withdrawal # "none" => OrderClosed(buyOrder)
          /\ withdrawal = "ok" => BuyVenueOrders = {1} /\ orders[1].side = "buy")
    /\ [][withdrawal' # withdrawal =>
              \/ withdrawal = "none" /\ exPc \in {"withdraw", "withdraw_send"}
              \/ withdrawal' = "none" /\ exPc' = "idle"]_vars

C29_Witness ==
    /\ exPc = "done"
    /\ withdrawal = "ok"
    /\ Cardinality(BuyOrders) = 1
    /\ Cardinality(SellVenueSells) = 1

\* C30: a call of execute_arbitrage that has ended returned success or None
\* and did not raise; success only with both orders closed, with the sell
\* order's cost minus the investment as actual profit next to the
\* opportunity's expected profit.
C30_SuccessOrNoneNeverRaises ==
    /\ exPc # "cancelled"
    /\ exPc = "done" =>
           \/ result = ReturnedNone
           \/ /\ result.ret = "success"
              /\ OrderClosed(buyOrder) /\ result.buy_order = buyOrder
              /\ OrderClosed(sellOrder) /\ result.sell_order = sellOrder
              /\ result.actual_profit = sellOrder.cost - exOpp.investment
              /\ result.expected_profit = exOpp.profit_amount

-----------------------------------------------------------------------------
(* The loop under fair scheduling: a step that can be taken is taken.  The  *)
(* event loop resumes a coroutine whose await has completed, and a sleep    *)
(* ends; a venue that never answers enables no step.  ScoreRound is enabled *)
(* exactly when scanPc = "score" and leaves that position, so its weak      *)
(* fairness is written as []<>(scanPc # "score").                           *)

FairSpec ==
    /\ Spec
    /\ WF_vars(StartFetch) /\ WF_vars(FetchAllPrices) /\ WF_vars(CheckQuotes)
    /\ []<>(scanPc # "score") /\ WF_vars(Notify)
    /\ WF_vars(HandOff) /\ WF_vars(SkipExecute) /\ WF_vars(Resume)
    /\ WF_vars(Sleep) /\ WF_vars(ErrorSleep)
    /\ WF_vars(CheckBalancesBuy) /\ WF_vars(CheckBalancesSell) /\ WF_vars(PlaceBuy)
    /\ WF_vars(WithdrawAddress) /\ WF_vars(WithdrawSend) /\ WF_vars(Compensate)
    /\ WF_vars(DepositFetch) /\ WF_vars(DepositSleep) /\ WF_vars(DepositTimedOut)
    /\ WF_vars(PlaceSell)

\* C16: a gather in flight returns, with the quotes of the venues that
\* answered with a ticker and without the others, also when a venue never
\* answers.
C16_AggregationReturns ==
    (scanPc = "fetching") ~>
        (scanPc = "fetched" /\ {prices[i].exchange : i \in 1..Len(prices)} = AnsweredVenues)

\* C21: an execution that has started ends (returns, or is cancelled) also
\* when a venue call never answers, and a deposit wait that ends without a
\* deposit ends no later than at the timeout.
C21_ExecutionEnds ==
    /\ (exPc = "balance") ~> (exPc \in {"done", "cancelled"})
    /\ [](deposit = "False" => elapsed <= DepositTimeout)

\* C20: after a fetch in which a venue raised, in a round that is not the last
\* one of the model, the loop starts a later round and queries that venue
\* again.
C20_ErrorRoundFollowedByRetry ==
    \A r \in 1..(MaxRounds - 1) : \A i \in 1..Len(Exchanges) :
        (round = r /\ scanPc = "fetched" /\ Exchanges[i] \in FailedVenues)
            ~> (round > r /\ scanPc = "fetching" /\ Exchanges[i] \in QueriedVenues)

-----------------------------------------------------------------------------
(* The scorer on its own: quote lists, investments and thresholds drawn    *)
(* from bounded sets, one call of calculate_arbitrage_profit.              *)

MaxQuotes == 2

ScorerSymbols == {BTCUSDT, ETHUSDT}
ScorerVenues == {"bybit", "binance", "kucoin"}
ScorerAsks == {100, 102}
ScorerBids == {None, 102, 105}
\* the <<bid, ask>> a venue may quote
ScorerLevels == {<<None, 100>>, <<102, 100>>, <<105, 102>>}
ScorerInvestments == {0, 1, 1000}
ScorerThresholds == {MinProfitDefault, 179, 180}

Quote(x, sym, b, a) == [exchange |-> x, symbol |-> sym, bid |-> b, ask |-> a]

Distinct(s) == \A i, j \in 1..Len(s) : i # j => s[i] # s[j]

VenueLists(V, n) == {s \in [1..n -> V] : Distinct(s)}

QuoteLists(V, sym, n) ==
    {[i \in 1..n |-> Quote(vs[i], sym, ls[i][1], ls[i][2])] :
        vs \in VenueLists(V, n), ls \in [1..n -> ScorerLevels]}

ScorerInit ==
    /\ symbol \in ScorerSymbols
    /\ \E n \in 2..MaxQuotes : prices \in QuoteLists(ScorerVenues, symbol, n)
    /\ investment \in ScorerInvestments
    /\ minProfit \in ScorerThresholds
    /\ opps = <<>>
    /\ tickers = <<>>
    /\ delivery = "none"
    /\ scanPc = "score"
    /\ autoExecute = FALSE
    /\ symIdx = 1
    /\ round = 1
    /\ inflight = <<>>
    /\ started = 0
    /\ ExecIdle
    /\ TriIdle

\* one call: the list is returned, or the call raises
Score ==
    /\ scanPc = "score"
    /\ opps' = calculate_arbitrage_profit(prices, investment, minProfit).opportunities
    /\ scanPc' = IF ScorerRaises(prices, investment) THEN "raised" ELSE "scored"
    /\ UNCHANGED <<autoExecute, symIdx, round, symbol, prices, investment, minProfit,
                   tickers, delivery, inflight, started>>
    /\ UNCHANGED execVars
    /\ UNCHANGED triVars

ScorerNext == Score

ScorerSpec == ScorerInit /\ [][ScorerNext]_vars

-----------------------------------------------------------------------------
(* Properties of calculate_arbitrage_profit, checked under ScorerSpec *)

\* the returned list holds an opportunity buying at prices[i], selling at prices[j]
InOpps(i, j) ==
    \E k \in 1..Len(opps) :
        /\ opps[k].buy_exchange = prices[i].exchange
        /\ opps[k].sell_exchange = prices[j].exchange

Scorable(i, j) == i # j /\ ~Falsy(prices[i].ask) /\ ~Falsy(prices[j].bid)

\* C8: every ordered pair of distinct venues whose profit exceeds the threshold
\* is in the result, whatever the order of the quote list.
C8_EveryOrderedPairScored ==
    (scanPc = "scored" /\ investment > 0) =>
        \A i, j \in 1..Len(prices) :
            (Scorable(i, j)
             /\ Emitted(Opportunity(prices[i], prices[j], investment), minProfit))
                => InOpps(i, j)

\* Scenario A at (i, j): buy ask 100, sell bid 102, both taker fees 0.1%, no
\* withdrawal fee, investment 1000
ScenarioA(i, j) ==
    /\ prices[i].ask = 100
    /\ prices[j].bid = 102
    /\ get_trading_fee(prices[i].exchange) = 10
    /\ get_trading_fee(prices[j].exchange) = 10
    /\ get_withdrawal_fee(prices[i].exchange, prices[i].symbol) = 0
    /\ investment = 1000

\* a second point, with a withdrawal fee: buy BTC on binance at 100 (fee 0.1%,
\* withdrawal fee 0.0005), sell at 105 on a 0.1% venue, investment 1000
ScenarioW(i, j) ==
    /\ prices[i].exchange = "binance" /\ prices[i].symbol = BTCUSDT
    /\ prices[i].ask = 100
    /\ prices[j].bid = 105
    /\ get_trading_fee(prices[j].exchange) = 10
    /\ investment = 1000

\* the profit percent of the returned opportunity for (i, j) is m millionths
\* of a percent, to within one millionth (the float lies next to the decimal)
OppPercentMicro(i, j, m) ==
    \A k \in 1..Len(opps) :
        (/\ opps[k].buy_exchange = prices[i].exchange
         /\ opps[k].sell_exchange = prices[j].exchange)
            => PercentMicro(opps[k].profit_percent) \in {m - 1, m}

\* C9 (as claimed): for an evaluated pair in Scenario A the profit is about
\* 1.80% and the opportunity is emitted whenever the threshold is at most 1.80%.
C9_ScenarioAEmittedUpTo180 ==
    scanPc = "scored" =>
        \A i, j \in 1..Len(prices) :
            (PairEvaluated(i, j) /\ ScenarioA(i, j) /\ minProfit <= 180) => InOpps(i, j)

\* C9 (amended): for an evaluated pair the profit percent is
\* 100 * (((inv / ask * (1 - buyFee) - withdrawalFee) * bid * (1 - sellFee)) / inv - 1):
\* 1.796102% in Scenario A, emitted exactly when the threshold is below
\* 1.796102% (so at 1.79%, not at 1.80%), and 4.784860% in the scenario with
\* a withdrawal fee.
C9_ScenarioAProfit ==
    scanPc = "scored" =>
        \A i, j \in 1..Len(prices) :
            /\ (PairEvaluated(i, j) /\ ScenarioA(i, j)) =>
                  /\ OppPercentMicro(i, j, 1796102)
                  /\ InOpps(i, j) <=> (minProfit * 100 * 100 < 1796102)
            /\ (PairEvaluated(i, j) /\ ScenarioW(i, j)) =>
                  /\ OppPercentMicro(i, j, 4784860)
                  /\ InOpps(i, j)

C9_Witness ==
    /\ scanPc = "scored"
    /\ minProfit = 179
    /\ \E i, j \in 1..Len(prices) :
          PairEvaluated(i, j) /\ ScenarioA(i, j) /\ InOpps(i, j)

\* the profit percent of buying at the quote buy and selling at the quote
\* sell, the investment being the state's
PercentAt(buy, sell) == ProfitPercent(buy, sell, investment)

HigherBids(q) == {b \in ScorerBids : ~Falsy(b) /\ b > q.bid}
HigherAsks(q) == {a \in ScorerAsks : a > q.ask}

\* C10 (as claimed): for every pair of quotes the profit percent does not fall
\* when the sell bid rises and does not rise when the buy ask rises.
C10_MonotoneInBidAndAsk ==
    \A i, j \in 1..Len(prices) :
        (scanPc = "scored" /\ investment > 0 /\ Scorable(i, j)) =>
            LET base == PercentAt(prices[i], prices[j])
            IN  /\ \A b \in HigherBids(prices[j]) :
                      PercentCmp(PercentAt(prices[i], [prices[j] EXCEPT !.bid = b]),
                                 base) >= 0
                /\ \A a \in HigherAsks(prices[i]) :
                      PercentCmp(PercentAt([prices[i] EXCEPT !.ask = a], prices[j]),
                                 base) <= 0

\* C10 (amended): the profit percent falls when the buy ask rises; when the
\* sell bid rises it rises if the bought amount exceeds the withdrawal fee,
\* stays if they are equal, and falls if the withdrawal fee exceeds the
\* bought amount.
C10_MonotoneWhenAmountPositive ==
    \A i, j \in 1..Len(prices) :
        (scanPc = "scored" /\ investment > 0 /\ Scorable(i, j)) =>
            LET base == PercentAt(prices[i], prices[j])
                A == FCmp(AmountAfterWithdrawal(prices[i], investment), FZero)
            IN  /\ \A b \in HigherBids(prices[j]) :
                      LET c == PercentCmp(PercentAt(prices[i], [prices[j] EXCEPT !.bid = b]),
                                          base)
                      IN  /\ A > 0 => c > 0
                          /\ A = 0 => c = 0
                          /\ A < 0 => c < 0
                /\ \A a \in HigherAsks(prices[i]) :
                      PercentCmp(PercentAt([prices[i] EXCEPT !.ask = a], prices[j]),
                                 base) < 0

C10_Witness ==
    /\ scanPc = "scored"
    /\ \E i, j \in 1..Len(prices) :
          /\ Scorable(i, j)
          /\ FCmp(AmountAfterWithdrawal(prices[i], investment), FZero) > 0
          /\ HigherBids(prices[j]) # {}
          /\ HigherAsks(prices[i]) # {}
          /\ InOpps(i, j)

-----------------------------------------------------------------------------
(* The scorer on lists of up to three quotes: several opportunities in one *)
(* call, opportunities of equal profit, and a profit at the threshold: ask *)
(* 1369, bid 1500 and both fees 0.1% give 9.35 with an investment of 1000  *)
(* and 9.350000000000005 with an investment of 5.                          *)

MaxRanked == 3

RankVenues == {"bybit", "binance", "kucoin", "gate"}
\* the <<bid, ask>> a venue may quote
RankLevels == {<<102, 100>>, <<1500, 1369>>}
RankThresholds == {MinProfitDefault, 935}
RankInvestments == {5, LoopInvestment}

RankQuoteLists(n) ==
    {[i \in 1..n |-> Quote(vs[i], BTCUSDT, ls[i][1], ls[i][2])] :
        vs \in VenueLists(RankVenues, n), ls \in [1..n -> RankLevels]}

RankInit ==
    /\ symbol = BTCUSDT
    /\ \E n \in 2..MaxRanked : prices \in RankQuoteLists(n)
    /\ investment \in RankInvestments
    /\ minProfit \in RankThresholds
    /\ opps = <<>>
    /\ tickers = <<>>
    /\ delivery = "none"
    /\ scanPc = "score"
    /\ autoExecute = FALSE
    /\ symIdx = 1
    /\ round = 1
    /\ inflight = <<>>
    /\ started = 0
    /\ ExecIdle
    /\ TriIdle

RankNext == Score

RankSpec == RankInit /\ [][RankNext]_vars

-----------------------------------------------------------------------------
(* Properties of the threshold test and of the ranking, checked under RankSpec *)

\* -1, 0, 1 as the profit percent of the pair (i, j) of the quote list is
\* below, equal to, above the threshold thr (hundredths of a percent)
PairVsThreshold(i, j, thr) ==
    FCmp(ProfitPercent(prices[i], prices[j], investment), ThresholdFloat(thr))

\* C11: every returned opportunity has a profit percent strictly above the
\* threshold, and a pair whose profit percent equals the threshold or is below
\* it is not in the returned list.
C11_EmittedStrictlyAboveThreshold ==
    scanPc = "scored" =>
        /\ \A k \in 1..Len(opps) : PercentAbove(opps[k].profit_percent, minProfit)
        /\ \A i, j \in 1..Len(prices) :
              (i # j /\ InOpps(i, j)) => PairVsThreshold(i, j, minProfit) = 1

\* one pair exactly at the threshold and left out, another one returned
C11_Witness ==
    /\ scanPc = "scored"
    /\ Len(opps) > 0
    /\ \E i, j \in 1..Len(prices) :
          PairEvaluated(i, j) /\ PairVsThreshold(i, j, minProfit) = 0 /\ ~InOpps(i, j)

\* the quote lists that are permutations of s
QuotePermutations(s) ==
    {[i \in 1..Len(s) |-> s[p[i]]] :
        p \in {f \in [1..Len(s) -> 1..Len(s)] : \A a, b \in 1..Len(s) : a # b => f[a] # f[b]}}

\* alphabetical position of a venue name
VenueRank(x) ==
    CASE x = "binance" -> 1
      [] x = "bybit"   -> 2
      [] x = "gate"    -> 3
      [] x = "kucoin"  -> 4
      [] x = "okx"     -> 5
      [] OTHER         -> 6

\* -1, 0, 1 as the absolute profit of o1 is below, equal to, above that of o2
AbsProfitCmp(o1, o2) == FCmp(o1.profit_amount, o2.profit_amount)

\* o1 ranks strictly before o2: higher profit percent, then larger absolute
\* profit, then the lexically smaller (buy venue, sell venue)
RanksBefore(o1, o2) ==
    \/ OppCmp(o1, o2) > 0
    \/ /\ OppCmp(o1, o2) = 0
       /\ \/ AbsProfitCmp(o1, o2) > 0
          \/ /\ AbsProfitCmp(o1, o2) = 0
             /\ \/ VenueRank(o1.buy_exchange) < VenueRank(o2.buy_exchange)
                \/ /\ o1.buy_exchange = o2.buy_exchange
                   /\ VenueRank(o1.sell_exchange) < VenueRank(o2.sell_exchange)

\* C12: the returned list is in descending order of profit percent with ties
\* broken by absolute profit and then by venue pair, and every permutation of
\* the quote list gives the same list (hence the same best opportunity).
C12_RankingSameForAnyPermutation ==
    scanPc = "scored" =>
        /\ \A k \in 1..(Len(opps) - 1) : RanksBefore(opps[k], opps[k + 1])
        /\ \A p \in QuotePermutations(prices) :
              calculate_arbitrage_profit(p, investment, minProfit).opportunities = opps

-----------------------------------------------------------------------------
(* TriangularArbitrageBot.find_triangular_pairs.  A symbol 'BTC/USDT' is   *)
(* held as [base, quote]: split('/')[0] is the base, split('/')[1] the     *)
(* quote, endswith('/USDT') says the quote is USDT, startswith(coin + '/') *)
(* says the base is coin.                                                  *)

RECURSIVE Contains(_, _)
\* "pair_c in markets"
Contains(ms, m) ==
    IF ms = <<>> THEN FALSE ELSE Head(ms) = m \/ Contains(Tail(ms), m)

\* base_pairs = [symbol for symbol in markets if symbol.endswith('/USDT')]
BasePairs(ms) == SelectSeq(ms, LAMBDA m : m.quote = "USDT")

RECURSIVE TrianglesOf(_, _, _, _, _)
\* the double loop "for pair_a in base_pairs: for pair_b in markets", from (i, j)
TrianglesOf(ms, base_pairs, base_currency, i, j) ==
    IF i > Len(base_pairs) THEN <<>>
    ELSE IF j > Len(ms) THEN TrianglesOf(ms, base_pairs, base_currency, i + 1, 1)
    ELSE LET pair_a == base_pairs[i]
             coin_a == pair_a.base
             pair_b == ms[j]
             coin_b == pair_b.quote
             pair_c == Pair(coin_b, "USDT")
         IN  (IF pair_b.base = coin_a /\ Contains(ms, pair_c)
              THEN <<Triangle(pair_a, pair_b, pair_c, base_currency)>> ELSE <<>>)
             \o TrianglesOf(ms, base_pairs, base_currency, i, j + 1)

find_triangular_pairs(ms, base_currency) ==
    TrianglesOf(ms, BasePairs(ms), base_currency, 1, 1)

-----------------------------------------------------------------------------
(* TriangularArbitrageBot.calculate_arbitrage_opportunity.  Prices are      *)
(* held as integers in units of 1/PriceScale and computed with as floats.   *)

PriceScale == 10 * 10

\* fee_rate = 0.001, in units of 1/TriFeeScale
TriFeeScale == 10 * 100
TriFeeRate == 1

\* self.min_profit_threshold = 0.5 (percent), in hundredths of a percent
TriMinProfit == 50

\* starting_amount=1000
StartingAmount == 1000

\* fetch_orderbook: the call raises, or the best bid and the best ask, each
\* None when that side of the book is empty
BookError == [ok |-> FALSE, bid |-> None, ask |-> None]

BookOutcomes ==
    {BookError}
      \cup {[ok |-> TRUE, bid |-> b, ask |-> a] :
              <<b, a>> \in {<<None, None>>, <<200, None>>, <<50, 200>>,
                            <<200, 200>>, <<50, 50>>}}

\* the float of a price of the order book
PriceFloat(p) == FLiteral(p, PriceScale)

\* x ** 3: the cube, rounded once
FCube(x) ==
    FRound(x.neg, BigTimes(BigTimes(x.mant, x.mant), x.mant), 3 * x.exp)

\* (1 - fee_rate) ** 3
TriFeeFactor == FCube(FSub(FInt(1), FLiteral(TriFeeRate, TriFeeScale)))

\* "step2 = step1 / prices_b['ask']": the second leg
SecondLeg(step1, prices_b) == FDiv(step1, PriceFloat(prices_b.ask))

\* final_amount = step3 * (1 - fee_rate) ** 3, with step1 =
\* starting_amount / ask_a, step2 = SecondLeg, step3 = step2 * bid_c
FinalAmount(prices_a, prices_b, prices_c) ==
    FMul(FMul(SecondLeg(FDiv(FInt(StartingAmount), PriceFloat(prices_a.ask)), prices_b),
              PriceFloat(prices_c.bid)),
         TriFeeFactor)

\* the dict of lines 75-80, profit_loss being final_amount - starting_amount
TriResult(triangle, final_amount, profit_loss) ==
    [ok |-> TRUE, triangle |-> triangle,
     profit_percent |-> PercentOf(profit_loss, StartingAmount),
     profit_amount |-> profit_loss,
     final_amount |-> final_amount]

\* "profit_loss = final_amount - starting_amount" and the dict returned
TriYield(triangle, final_amount) ==
    TriResult(triangle, final_amount, FSub(final_amount, FInt(StartingAmount)))

\* None when a fetch_orderbook raised (the except of line 81) or when
\* "not all([prices_a['ask'], prices_b['ask'], prices_c['bid']])"
calculate_arbitrage_opportunity(triangle, bks) ==
    IF \E k \in 1..3 : ~bks[k].ok THEN NoTriOpp
    ELSE IF Falsy(bks[1].ask) \/ Falsy(bks[2].ask) \/ Falsy(bks[3].bid) THEN NoTriOpp
    ELSE TriYield(triangle, FinalAmount(bks[1], bks[2], bks[3]))

\* "opportunity and opportunity['profit_percent'] > self.min_profit_threshold"
TriAboveThreshold(opportunity, thr) ==
    opportunity.ok /\ PercentAbove(opportunity.profit_percent, thr)

-----------------------------------------------------------------------------
(* TriangularArbitrageBot.run *)

\* the for loop moves to the next triangle, or the round ends with sleep(1)
NextTriangle ==
    /\ books' = <<>>
    /\ triOpp' = NoTriOpp
    /\ triDelivery' = "none"
    /\ IF triIdx < Len(triangles)
       THEN triIdx' = triIdx + 1 /\ triPc' = "scan"
       ELSE triPc' = "tsleep" /\ UNCHANGED triIdx

\* "triangles = self.find_triangular_pairs()" before the loop: load_markets
\* raises (the call is outside the try: run() ends), or the list is built
FindTriangularPairs ==
    /\ triPc = "start"
    /\ \/ /\ triPc' = "crashed"
          /\ UNCHANGED triangles
       \/ /\ triangles' = find_triangular_pairs(markets, baseCurrency)
          /\ triPc' = IF find_triangular_pairs(markets, baseCurrency) = <<>>
                      THEN "tsleep" ELSE "scan"
    /\ UNCHANGED <<markets, baseCurrency, triIdx, triRound, books, triOpp, triDelivery>>
    /\ UNCHANGED <<loopVars, execVars, legVars>>

\* "opportunity = self.calculate_arbitrage_opportunity(triangle)"
CalculateOpportunity ==
    /\ triPc = "scan"
    /\ \E bks \in [1..3 -> BookOutcomes] :
         /\ books' = bks
         /\ triOpp' = calculate_arbitrage_opportunity(triangles[triIdx], bks)
    /\ triPc' = "tscored"
    /\ UNCHANGED <<markets, baseCurrency, triangles, triIdx, triRound, triDelivery>>
    /\ UNCHANGED <<loopVars, execVars, legVars>>

\* the test of line 139
TriThreshold ==
    /\ triPc = "tscored"
    /\ IF TriAboveThreshold(triOpp, TriMinProfit)
       THEN /\ triPc' = "tnotify"
            /\ UNCHANGED <<triIdx, books, triOpp, triDelivery>>
       ELSE NextTriangle
    /\ UNCHANGED <<markets, baseCurrency, triangles, triRound>>
    /\ UNCHANGED <<loopVars, execVars, legVars>>

\* send_telegram_notification: bot.send_message returns, or an exception
\* leaves the for loop for the handler of line 150
TriNotify ==
    /\ triPc = "tnotify"
    /\ \/ /\ triDelivery' = "ok"
          /\ triPc' = "tnotified"
       \/ /\ triDelivery' = "failed"
          /\ triPc' = "terrsleep"
    /\ UNCHANGED <<markets, baseCurrency, triangles, triIdx, triRound, books, triOpp>>
    /\ UNCHANGED <<loopVars, execVars, legVars>>

\* execute_arbitrage is commented out (line 146): on to the next triangle
TriContinue ==
    /\ triPc = "tnotified"
    /\ NextTriangle
    /\ UNCHANGED <<markets, baseCurrency, triangles, triRound>>
    /\ UNCHANGED <<loopVars, execVars, legVars>>

\* time.sleep(1) at the end of a round, then the next "while True" iteration
TriSleep ==
    /\ triPc = "tsleep"
    /\ triRound < MaxRounds
    /\ triRound' = triRound + 1
    /\ triIdx' = 1
    /\ triPc' = IF triangles = <<>> THEN "tsleep" ELSE "scan"
    /\ books' = <<>>
    /\ triOpp' = NoTriOpp
    /\ triDelivery' = "none"
    /\ UNCHANGED <<markets, baseCurrency, triangles>>
    /\ UNCHANGED <<loopVars, execVars, legVars>>

\* "except Exception": log, time.sleep(5), then the next iteration
TriErrorSleep ==
    /\ triPc = "terrsleep"
    /\ triRound < MaxRounds
    /\ triRound' = triRound + 1
    /\ triIdx' = 1
    /\ triPc' = "scan"
    /\ books' = <<>>
    /\ triOpp' = NoTriOpp
    /\ triDelivery' = "none"
    /\ UNCHANGED <<markets, baseCurrency, triangles>>
    /\ UNCHANGED <<loopVars, execVars, legVars>>

\* the cross-exchange bot is not running
CrossIdle ==
    /\ autoExecute = FALSE
    /\ scanPc = "off"
    /\ symIdx = 1
    /\ round = 1
    /\ symbol = BTCUSDT
    /\ prices = <<>>
    /\ investment = LoopInvestment
    /\ minProfit = MinProfitDefault
    /\ opps = <<>>
    /\ tickers = <<>>
    /\ delivery = "none"
    /\ inflight = <<>>
    /\ started = 0
    /\ ExecIdle

\* market lists of the run: one triangle, two triangles
TriMarketLists ==
    {<<Pair("BTC", "USDT"), Pair("ETH", "USDT"), Pair("BTC", "ETH")>>,
     <<Pair("BTC", "USDT"), Pair("ETH", "USDT"), Pair("BTC", "ETH"), Pair("ETH", "BTC")>>}

TriStart ==
    /\ triangles = <<>>
    /\ triPc = "start"
    /\ triIdx = 1
    /\ triRound = 1
    /\ books = <<>>
    /\ triOpp = NoTriOpp
    /\ triDelivery = "none"
    /\ LegIdle

TriInit ==
    /\ markets \in TriMarketLists
    /\ baseCurrency = "USDT"
    /\ TriStart
    /\ CrossIdle

TriNext ==
    \/ FindTriangularPairs
    \/ CalculateOpportunity
    \/ TriThreshold
    \/ TriNotify
    \/ TriContinue
    \/ TriSleep
    \/ TriErrorSleep

TriSpec == TriInit /\ [][TriNext]_vars

-----------------------------------------------------------------------------
(* Cycle construction on its own: market lists and anchors drawn from       *)
(* bounded sets, one call of find_triangular_pairs.                         *)

MaxMarkets == 4

PairUniverse ==
    <<Pair("BTC", "USDT"), Pair("ETH", "USDT"), Pair("BNB", "USDT"), Pair("BTC", "ETH"),
      Pair("ETH", "BTC"), Pair("ETH", "BNB"), Pair("BNB", "BTC")>>

\* the sublists of the universe of at most MaxMarkets symbols
MarketLists ==
    {SelectSeq(PairUniverse, LAMBDA m : m \in S) :
        S \in {T \in SUBSET {PairUniverse[k] : k \in 1..Len(PairUniverse)} :
                  Cardinality(T) <= MaxMarkets}}

Anchors == {"USDT", "BTC"}

CycleInit ==
    /\ markets \in MarketLists
    /\ baseCurrency \in Anchors
    /\ TriStart
    /\ CrossIdle

CycleNext == FindTriangularPairs

CycleSpec == CycleInit /\ [][CycleNext]_vars

-----------------------------------------------------------------------------
(* Properties of find_triangular_pairs, checked under CycleSpec *)

\* the leg on `pair` turns currency `from` into currency `to`
LegTrades(pair, from, to) ==
    \/ from = pair.quote /\ to = pair.base
    \/ from = pair.base /\ to = pair.quote

\* C13: every cycle that cycle construction returns starts and ends in the
\* anchor: the quote currency of its first and of its last pair is the anchor,
\* and each leg turns the currency the previous leg produced into the next one.
C13_CyclesChainBackToAnchor ==
    triPc \in {"scan", "tsleep"} =>
        \A n \in 1..Len(triangles) :
            LET t == triangles[n]
            IN  /\ t.path[1].quote = baseCurrency
                /\ t.path[3].quote = baseCurrency
                /\ t.currencies[1] = baseCurrency /\ t.currencies[4] = baseCurrency
                /\ \A k \in 1..3 : LegTrades(t.path[k], t.currencies[k], t.currencies[k + 1])

-----------------------------------------------------------------------------
(* Properties of calculate_arbitrage_opportunity, checked under TriSpec *)

\* the amount after a leg on `pair` entered holding `amount` of `held`:
\* amount / ask when the leg buys the pair's base with its quote,
\* amount * bid when it sells the base
DirectionStep(amount, pair, held, book) ==
    IF held = pair.quote THEN FDiv(amount, PriceFloat(book.ask))
    ELSE FMul(amount, PriceFloat(book.bid))

\* the final amount of the cycle with every leg priced in its direction
DirectionFinal(t, bks) ==
    LET step1 == DirectionStep(FInt(StartingAmount), t.path[1], t.currencies[1], bks[1])
        step2 == DirectionStep(step1, t.path[2], t.currencies[2], bks[2])
        step3 == DirectionStep(step2, t.path[3], t.currencies[3], bks[3])
    IN  FMul(step3, TriFeeFactor)

\* C14: the yield of a scored cycle is the product over its legs of the
\* multiplier of the direction the leg trades in (1/ask buying the base, bid
\* selling it) times (1 - fee) per leg.
C14_YieldMatchesLegDirections ==
    (triPc = "tscored" /\ triOpp.ok /\ ~Falsy(books[2].bid)) =>
        FCmp(triOpp.final_amount, DirectionFinal(triOpp.triangle, books)) = 0

-----------------------------------------------------------------------------
(* TriangularArbitrageBot.execute_arbitrage: three market orders on one     *)
(* exchange, each call a blocking call.  Amounts are integers.  A call      *)
(* raises, or answers with an order holding status and filled.              *)

LegInvestments == {100, 1000}

\* create_market_buy_order / create_market_sell_order raised
LegRaised == [status |-> "raised", filled |-> 0]

LegResponses ==
    {[status |-> "closed",   filled |-> 5],
     [status |-> "closed",   filled |-> 8],
     [status |-> "open",     filled |-> 2],
     [status |-> "canceled", filled |-> 0]}

LegCall(n, pair, side, amount, response) ==
    [leg |-> n, pair |-> pair, side |-> side, amount |-> amount, response |-> response]

\* one order call of execute_arbitrage: the call is made; when it raises the
\* handler of line 120 logs and returns None, otherwise the order is appended
\* to orders and the code goes on to `after`
PlaceLeg(n, side, amount, after) ==
    \E o \in LegResponses \cup {LegRaised} :
        /\ legCalls' = Append(legCalls, LegCall(n, legTriangle.path[n], side, amount, o))
        /\ IF o = LegRaised
           THEN /\ legResult' = "None"
                /\ legPc' = "returned"
                /\ UNCHANGED legOrders
           ELSE /\ legOrders' = Append(legOrders, o)
                /\ legPc' = after
                /\ legResult' = IF after = "returned" THEN "orders" ELSE legResult
        /\ UNCHANGED <<legTriangle, legInvestment>>
        /\ UNCHANGED <<markets, baseCurrency, triangles, triPc, triIdx, triRound, books,
                       triOpp, triDelivery>>
        /\ UNCHANGED <<loopVars, execVars>>

\* order1: buy path[0] for investment_amount
Leg1 ==
    /\ legPc = "leg1"
    /\ PlaceLeg(1, "buy", legInvestment, "leg2")

\* order2: buy path[1] for order1['filled']
Leg2 ==
    /\ legPc = "leg2"
    /\ PlaceLeg(2, "buy", legOrders[1].filled, "leg3")

\* order3: sell path[2] for order2['filled'], then "return orders"
Leg3 ==
    /\ legPc = "leg3"
    /\ PlaceLeg(3, "sell", legOrders[2].filled, "returned")

\* execute_arbitrage(opportunity, investment_amount) is called with a triangle
\* of find_triangular_pairs; run() is not under way
LegInit ==
    /\ markets \in TriMarketLists
    /\ baseCurrency = "USDT"
    /\ triangles = find_triangular_pairs(markets, baseCurrency)
    /\ triPc = "off"
    /\ triIdx = 1
    /\ triRound = 1
    /\ books = <<>>
    /\ triOpp = NoTriOpp
    /\ triDelivery = "none"
    /\ legPc = "leg1"
    /\ legTriangle \in {triangles[i] : i \in 1..Len(triangles)}
    /\ legInvestment \in LegInvestments
    /\ legCalls = <<>>
    /\ legOrders = <<>>
    /\ legResult = "pending"
    /\ CrossIdle

LegNext ==
    \/ Leg1
    \/ Leg2
    \/ Leg3

LegSpec == LegInit /\ [][LegNext]_vars

-----------------------------------------------------------------------------
(* Properties of the triangular execute_arbitrage, checked under LegSpec *)

\* the call of leg n raised
LegFailed(n) ==
    \E i \in 1..Len(legCalls) : legCalls[i].leg = n /\ legCalls[i].response = LegRaised

\* calls that are not one of the three legs in their order
ExtraCalls == {i \in 1..Len(legCalls) : legCalls[i].leg # i}

\* C27: when the call of leg 2 or leg 3 raised after leg 1 had filled an
\* amount, the execution has failed and an order beyond the legs, disposing of
\* what is held, was placed on the exchange.
C27_LegErrorCompensated ==
    \A n \in {2, 3} :
        (legPc = "returned" /\ LegFailed(n) /\ legOrders[1].filled > 0) =>
            /\ legResult = "None"
            /\ ExtraCalls # {}

\* C28: the calls are those of leg 1, 2, 3 in this order; leg n+1 is called
\* only when the order of leg n came back closed, and for the amount that
\* order filled.
C28_LegsInOrderAfterFill ==
    /\ \A i \in 1..Len(legCalls) : legCalls[i].leg = i
    /\ \A i \in 1..(Len(legCalls) - 1) :
           /\ legCalls[i].response.status = "closed"
           /\ legCalls[i + 1].amount = legCalls[i].response.filled

====
